---- MODULE Spec2Model ----
(***************************************************************************)
(* Model of the TF1 plugin (src/streamlink/plugins/tf1.py): the resolution *)
(* call _get_streams, the login handshake (session GET, login POST, token  *)
(* exchange POST), the media-info GET and the channel derivation.          *)
(*                                                                         *)
(* Every blocking HTTP call is split in two steps: the request is issued   *)
(* by the action that reaches it, the response is consumed by the next     *)
(* action.  Responses are inputs chosen by the environment.                *)
(***************************************************************************)
EXTENDS Integers, Sequences, FiniteSets, TLC

VARIABLES baseAttrs, url, opts, fields, entry, pc, branch, trace, logs, hls, outcome, calls

\* the auth fields assigned so far in the current call, in order
VARIABLES writes

\* the URL matcher and the channel derivation taken alone: the address, the
\* result of the match, the result of _get_channel and the position
VARIABLES address, matched, channel, phase

callVars == <<baseAttrs, url, opts, fields, entry, pc, branch, trace, logs, hls, outcome, calls, writes>>

chanVars == <<address, matched, channel, phase>>

vars == <<callVars, chanVars>>

(* ------------------------------ bounds --------------------------------- *)

\* number of resolution calls made on one plugin instance
MaxCalls == 2

\* plugin instances; Spec drives the first one only
Insts == {"p1", "p2"}
Active == {"p1"}

None == "None"

(* --------------------------- class constants --------------------------- *)

URL_API == "https://mediainfo.tf1.fr/mediainfocombo/"
TF1_AUTH_URL == "https://compte.tf1.fr/accounts.login"
GIGYA_TOKEN_URL == "https://www.tf1.fr/token/gigya/web"
gigya_api_key == "3_hWgJdARhz_7l1oOp3a8BDLoR9cuWZpUaKG4aqF7gum9_iK3uTZ2VlDBl8ANf8FVk"

\* the names the class body of TF1 binds
ClassAttrs == {"_URL_API", "_TF1_AUTH_URL", "_GIGYA_TOKEN_URL", "gigya_api_key",
               "user_signature", "user_uid", "user_timestamp", "user_token"}

\* self.<name>: found in the class body, else in what the base class provides
\* (base), else AttributeError
HasAttr(base, name) == name \in ClassAttrs \/ name \in base

\* the value a name resolves to when the base class provides it
BaseValue(name) == <<"inherited", name>>

(* ------------------------------- inputs -------------------------------- *)

\* plugin options: username and password, each possibly unset
Options == { [username |-> None,    password |-> None],
             [username |-> "",      password |-> "hunter2"],
             [username |-> "alice", password |-> None],
             [username |-> "alice", password |-> "hunter2"] }

\* Python truthiness of an option value
Truthy(v) == v # None /\ v # ""

\* names outside the class body that the base class may or may not provide
BaseAttrSets == SUBSET {"session_url", "auth_url"}

(* --------------------------- JSON-like values -------------------------- *)

\* a JSON member: absent from the object, a string or an integer
JA == [k |-> "absent", s |-> "", n |-> 0]
JS(x) == [k |-> "str", s |-> x, n |-> 0]
JI(x) == [k |-> "int", s |-> "", n |-> x]

\* a timestamp member: absent, an integer, or a string given by its characters
TA == [k |-> "absent", chars |-> <<>>, n |-> 0]
TI(x) == [k |-> "int", chars |-> <<>>, n |-> x]
TS(c) == [k |-> "str", chars |-> c, n |-> 0]

Digits == {"0", "1", "2", "3", "4", "5", "6", "7", "8", "9"}

DigitVal(c) ==
  CASE c = "0" -> 0 [] c = "1" -> 1 [] c = "2" -> 2 [] c = "3" -> 3 [] c = "4" -> 4
    [] c = "5" -> 5 [] c = "6" -> 6 [] c = "7" -> 7 [] c = "8" -> 8 [] c = "9" -> 9
    [] OTHER -> 0

RECURSIVE ParseDigits(_)
ParseDigits(c) ==
  IF c = <<>> THEN 0
  ELSE 10 * ParseDigits(SubSeq(c, 1, Len(c) - 1)) + DigitVal(c[Len(c)])

\* int(x) of line 130: the error it raises ("" when none) and its value
IntErr(t) ==
  IF t.k = "absent" THEN "KeyError"
  ELSE IF t.k = "int" THEN ""
  ELSE IF t.chars # <<>> /\ \A j \in 1..Len(t.chars) : t.chars[j] \in Digits THEN ""
  ELSE "ValueError"

IntOf(t) == IF t.k = "int" THEN t.n ELSE ParseDigits(t.chars)

\* a string as urlparse sees it
Text(x) == [scheme |-> "", netloc |-> "", path |-> x]
Href(sch, host, p) == [scheme |-> sch, netloc |-> host, path |-> p]

\* a delivery member holding a string (error text or url), or absent, or a number
UA == [k |-> "absent", v |-> Text("")]
US(x) == [k |-> "str", v |-> x]
UN == [k |-> "int", v |-> Text("")]

(* ------------------------------ responses ------------------------------ *)

\* bodies of the session and the login response
GoodBodyA == [json |-> TRUE, userSignature |-> JS("sigA"), UID |-> JS("uidA"), timestamp |-> TI(41)]
GoodBodyB == [json |-> TRUE, userSignature |-> JS("sigB"), UID |-> JS("uidB"), timestamp |-> TS(<<"4", "2">>)]

AssertBodies ==
  { GoodBodyA, GoodBodyB,
    [GoodBodyA EXCEPT !.userSignature = JA],
    [GoodBodyB EXCEPT !.UID = JA],
    [GoodBodyA EXCEPT !.timestamp = TA],
    [GoodBodyB EXCEPT !.timestamp = TS(<<"4", "x">>)],
    [GoodBodyA EXCEPT !.json = FALSE] }

Statuses == {200, 204, 403}

\* a response: the status, the body and the query string of the final URL
AuthResponses ==
  { [status |-> 200, body |-> b, query |-> "ptrt=x"] : b \in AssertBodies }
  \cup { [status |-> st, body |-> GoodBodyA, query |-> q] :
           st \in Statuses \ {200}, q \in {"ptrt=x", ""} }

GoodToken1 == [json |-> TRUE, token |-> JS("tok1"), refresh_token |-> JS("ref1"),
               ttl |-> JI(3600), type |-> JS("Bearer")]
GoodToken2 == [GoodToken1 EXCEPT !.token = JS("tok2")]

TokenBodies ==
  { GoodToken1, GoodToken2,
    [GoodToken1 EXCEPT !.token = JA],
    [GoodToken1 EXCEPT !.refresh_token = JA],
    [GoodToken1 EXCEPT !.ttl = JA],
    [GoodToken1 EXCEPT !.ttl = JS("3600")],
    [GoodToken1 EXCEPT !.type = JA],
    [GoodToken1 EXCEPT !.json = FALSE] }

Manifest == Href("https", "example.test", "/manifest.m3u8")
NoHost == Href("", "", "manifest.m3u8")

Deliveries ==
  { [json |-> TRUE, present |-> TRUE, code |-> c, format |-> f, url |-> u, error |-> e] :
      c \in {JI(200), JI(403), JS("200")},
      f \in {JS("hls"), JS("dash")},
      u \in {US(Manifest), US(NoHost), UA},
      e \in {US(Text("geo-blocked")), UA} }
  \cup { [json |-> TRUE, present |-> FALSE, code |-> JA, format |-> JA, url |-> UA, error |-> UA],
         [json |-> TRUE, present |-> TRUE, code |-> JI(403), format |-> JA, url |-> UA, error |-> UN],
         [json |-> FALSE, present |-> FALSE, code |-> JA, format |-> JA, url |-> UA, error |-> UA] }

(* -------------------------- channel derivation ------------------------- *)

\* a group of the URL match: unmatched (Python None) or the matched characters
NoGroup == [matched |-> FALSE, s |-> <<>>]
Group(c) == [matched |-> TRUE, s |-> c]
GroupTruthy(g) == g.matched /\ g.s # <<>>

UpperChar(c) ==
  CASE c = "a" -> "A" [] c = "b" -> "B" [] c = "c" -> "C" [] c = "d" -> "D" [] c = "e" -> "E"
    [] c = "f" -> "F" [] c = "g" -> "G" [] c = "h" -> "H" [] c = "i" -> "I" [] c = "j" -> "J"
    [] c = "k" -> "K" [] c = "l" -> "L" [] c = "m" -> "M" [] c = "n" -> "N" [] c = "o" -> "O"
    [] c = "p" -> "P" [] c = "q" -> "Q" [] c = "r" -> "R" [] c = "s" -> "S" [] c = "t" -> "T"
    [] c = "u" -> "U" [] c = "v" -> "V" [] c = "w" -> "W" [] c = "x" -> "X" [] c = "y" -> "Y"
    [] c = "z" -> "Z"
    [] OTHER -> c

Upper(w) == [j \in 1..Len(w) |-> UpperChar(w[j])]

\* the pages a plugin instance is constructed for, with the groups of the match
Urls ==
  { [href |-> "https://www.tf1.fr/tf1/direct",
     live |-> Group(<<"t", "f", "1">>), stream |-> NoGroup, lci |-> NoGroup],
    [href |-> "https://www.tf1.fr/stream/sP-1",
     live |-> NoGroup, stream |-> Group(<<"s", "P", "-", "1">>), lci |-> NoGroup],
    [href |-> "https://lci.fr/direct",
     live |-> NoGroup, stream |-> NoGroup, lci |-> Group(<<"l", "c", "i">>)] }

get_channel_UpperStream(m) ==
  IF GroupTruthy(m.live)
    THEN [ok |-> TRUE, channel |-> m.live.s, channel_id |-> <<"L", "_">> \o Upper(m.live.s)]
  ELSE IF GroupTruthy(m.lci)
    THEN [ok |-> TRUE, channel |-> <<"L", "C", "I">>, channel_id |-> <<"L", "_", "L", "C", "I">>]
  ELSE IF GroupTruthy(m.stream)
    THEN [ok |-> TRUE, channel |-> m.stream.s,
          channel_id |-> <<"L", "_", "F", "A", "S", "T", "_", "v", "2", "l", "-">> \o Upper(m.stream.s)]
  ELSE [ok |-> FALSE, channel |-> <<>>, channel_id |-> <<>>]

\* lines 62-75
get_channel(m) ==
  IF GroupTruthy(m.live)
    THEN [ok |-> TRUE, channel |-> m.live.s, channel_id |-> <<"L", "_">> \o Upper(m.live.s)]
  ELSE IF GroupTruthy(m.lci)
    THEN [ok |-> TRUE, channel |-> <<"L", "C", "I">>, channel_id |-> <<"L", "_", "L", "C", "I">>]
  ELSE IF GroupTruthy(m.stream)
    THEN [ok |-> TRUE, channel |-> m.stream.s,
          channel_id |-> <<"L", "_", "F", "A", "S", "T", "_", "v", "2", "l", "-">> \o m.stream.s]
  ELSE [ok |-> FALSE, channel |-> <<>>, channel_id |-> <<>>]

(* ----------------------------- URL matcher ----------------------------- *)

\* lines 27 and 29: the characters of the class [\w-]
WordChars == {"a", "b", "c", "d", "e", "f", "g", "h", "i", "j", "k", "l", "m", "n", "o", "p", "q", "r", "s", "t", "u", "v", "w", "x", "y", "z", "A", "B", "C", "D", "E", "F", "G", "H", "I", "J", "K", "L", "M", "N", "O", "P", "Q", "R", "S", "T", "U", "V", "W", "X", "Y", "Z", "0", "1", "2", "3", "4", "5", "6", "7", "8", "9", "_", "-"}

\* the literal lit stands in u at position p
HasAt(u, p, lit) == p + Len(lit) - 1 <= Len(u) /\ SubSeq(u, p, p + Len(lit) - 1) = lit

\* the position after the longest run of [\w-] that starts at p
RECURSIVE RunEnd(_, _)
RunEnd(u, p) == IF p <= Len(u) /\ u[p] \in WordChars THEN RunEnd(u, p + 1) ELSE p

RunOk_Star(run) == TRUE

\* lines 27 and 29: the + of [\w-]+ wants at least one character
RunOk(run) == run # <<>>

NoMatch == [ok |-> FALSE, live |-> NoGroup, stream |-> NoGroup, lci |-> NoGroup]

\* lines 25-33: the alternatives after the optional www., tried in order
MatchHost(u, p) ==
  IF HasAt(u, p, <<"t", "f", "1", ".", "f", "r", "/">>)
    THEN LET q == p + 7
             run == SubSeq(u, q, RunEnd(u, q) - 1)
             slug == SubSeq(u, q + 7, RunEnd(u, q + 7) - 1)
         IN IF RunOk(run) /\ HasAt(u, RunEnd(u, q), <<"/", "d", "i", "r", "e", "c", "t">>)
              THEN [NoMatch EXCEPT !.ok = TRUE, !.live = Group(run)]
            ELSE IF HasAt(u, q, <<"s", "t", "r", "e", "a", "m", "/">>) /\ RunOk(slug)
              THEN [NoMatch EXCEPT !.ok = TRUE, !.stream = Group(slug)]
            ELSE NoMatch
  ELSE IF HasAt(u, p, <<"t", "f", "1", "i", "n", "f", "o">>) /\ HasAt(u, p + 7, <<".", "f", "r", "/", "d", "i", "r", "e", "c", "t">>)
    THEN [NoMatch EXCEPT !.ok = TRUE, !.lci = Group(<<"t", "f", "1", "i", "n", "f", "o">>)]
  ELSE IF HasAt(u, p, <<"l", "c", "i">>) /\ HasAt(u, p + 3, <<".", "f", "r", "/", "d", "i", "r", "e", "c", "t">>)
    THEN [NoMatch EXCEPT !.ok = TRUE, !.lci = Group(<<"l", "c", "i">>)]
  ELSE NoMatch

\* line 24: the optional www. is taken first and given up when the rest fails
MatchWww(u, p) ==
  IF HasAt(u, p, <<"w", "w", "w", ".">>) /\ MatchHost(u, p + 4).ok THEN MatchHost(u, p + 4)
  ELSE MatchHost(u, p)

\* lines 23-34: pattern.match(url), anchored at the start of the address
MatchUrl(u) ==
  IF HasAt(u, 1, <<"h", "t", "t", "p", "s", ":", "/", "/">>) THEN MatchWww(u, 9)
  ELSE IF HasAt(u, 1, <<"h", "t", "t", "p", ":", "/", "/">>) THEN MatchWww(u, 8)
  ELSE NoMatch

\* the addresses handed to the matcher
Schemes == {<<"h", "t", "t", "p", "s", ":", "/", "/">>, <<"h", "t", "t", "p", ":", "/", "/">>, <<"f", "t", "p", ":", "/", "/">>}
Wwws == {<<>>, <<"w", "w", "w", ".">>}
Hosts == {<<"t", "f", "1", ".", "f", "r", "/">>, <<"l", "c", "i", ".", "f", "r", "/">>, <<"t", "f", "1", "i", "n", "f", "o", ".", "f", "r", "/">>, <<"t", "f", "2", ".", "f", "r", "/">>}
Paths == {<<"t", "f", "1", "/", "d", "i", "r", "e", "c", "t">>,
          <<"T", "M", "C", "/", "d", "i", "r", "e", "c", "t", "/">>,
          <<"t", "_", "f", "-", "1", "/", "d", "i", "r", "e", "c", "t", "?", "x">>,
          <<"s", "t", "r", "e", "a", "m", "/", "s", "P", "-", "1">>,
          <<"s", "t", "r", "e", "a", "m", "/", "d", "i", "r", "e", "c", "t">>,
          <<"s", "t", "r", "e", "a", "m", "/">>,
          <<"d", "i", "r", "e", "c", "t">>,
          <<"d", "i", "r", "e", "c", "t", "/">>,
          <<"/", "d", "i", "r", "e", "c", "t">>,
          <<"t", "f", "1", "/", "r", "e", "p", "l", "a", "y">>,
          <<"s", "t", "r", "e", "a", "m", "/", "s", "p", "o", "r", "t", "1", "/", "x">>}

Addresses == { a \o b \o c \o d : a \in Schemes, b \in Wwws, c \in Hosts, d \in Paths }

(* ---------------------------- auth fields ------------------------------ *)

\* user_timestamp holds "" until line 130 stores an integer
NoStamp == [isint |-> FALSE, n |-> 0]
Stamp(x) == [isint |-> TRUE, n |-> x]

\* lines 56-59: the class-level defaults of the four auth fields
InitFields == [user_signature |-> "", user_uid |-> "", user_timestamp |-> NoStamp, user_token |-> ""]

StatusOk_AnySuccess(status) == status \in 200..299

\* line 126
StatusOk(status) == status = 200

AssertionParse_NoStamp(f, body) ==
  IF ~body.json THEN [err |-> "JSONDecodeError", f |-> f, w |-> <<>>]
  ELSE IF body.userSignature.k = "absent" THEN [err |-> "KeyError", f |-> f, w |-> <<>>]
  ELSE LET f1 == [f EXCEPT !.user_signature = body.userSignature.s] IN
    IF body.UID.k = "absent" THEN [err |-> "KeyError", f |-> f1, w |-> <<"user_signature">>]
    ELSE LET f2 == [f1 EXCEPT !.user_uid = body.UID.s] IN
      IF IntErr(body.timestamp) # ""
        THEN [err |-> IntErr(body.timestamp), f |-> f2, w |-> <<"user_signature", "user_uid">>]
      ELSE [err |-> "", f |-> f2, w |-> <<"user_signature", "user_uid">>]

\* lines 128-130: the three assignments in order; an exception leaves the
\* earlier assignments in place; w names the fields assigned
AssertionParse(f, body) ==
  IF ~body.json THEN [err |-> "JSONDecodeError", f |-> f, w |-> <<>>]
  ELSE IF body.userSignature.k = "absent" THEN [err |-> "KeyError", f |-> f, w |-> <<>>]
  ELSE LET f1 == [f EXCEPT !.user_signature = body.userSignature.s] IN
    IF body.UID.k = "absent" THEN [err |-> "KeyError", f |-> f1, w |-> <<"user_signature">>]
    ELSE LET f2 == [f1 EXCEPT !.user_uid = body.UID.s] IN
      IF IntErr(body.timestamp) # ""
        THEN [err |-> IntErr(body.timestamp), f |-> f2, w |-> <<"user_signature", "user_uid">>]
      ELSE [err |-> "", f |-> [f2 EXCEPT !.user_timestamp = Stamp(IntOf(body.timestamp))],
            w |-> <<"user_signature", "user_uid", "user_timestamp">>]

\* line 127: the trailing comma makes consent_ids a 1-tuple holding the list
consent_ids ==
  << <<"1", "2", "3", "4", "10001", "10003", "10005", "10007", "10013", "10015", "10017",
       "10019", "10009", "10011", "13002", "13001", "10004", "10014", "10016", "10018",
       "10020", "10010", "10012", "10006", "10008">> >>

TokenRequest_ClassFields(f, page) ==
  [method |-> "POST", url |-> GIGYA_TOKEN_URL,
   data |-> [uid |-> InitFields.user_uid, signature |-> InitFields.user_signature,
             timestamp |-> f.user_timestamp, consentIds |-> consent_ids],
   headers |-> [Referer |-> page.href]]

\* lines 131-139: the token-exchange request
TokenRequest(f, page) ==
  [method |-> "POST", url |-> GIGYA_TOKEN_URL,
   data |-> [uid |-> f.user_uid, signature |-> f.user_signature,
             timestamp |-> f.user_timestamp, consentIds |-> consent_ids],
   headers |-> [Referer |-> page.href]]

TokenSchema_TtlOptional(body) ==
  /\ body.json
  /\ body.token.k = "str"
  /\ body.refresh_token.k = "str"
  /\ body.ttl.k \in {"int", "absent"}
  /\ body.type.k = "str"

\* lines 140-148: all four keys are required
TokenSchema(body) ==
  /\ body.json
  /\ body.token.k = "str"
  /\ body.refresh_token.k = "str"
  /\ body.ttl.k = "int"
  /\ body.type.k = "str"

StoreToken_KeepFirst(f, body) ==
  IF f.user_token # "" THEN f ELSE [f EXCEPT !.user_token = body.token.s]

\* line 150
StoreToken(f, body) == [f EXCEPT !.user_token = body.token.s]

SkipLogin_Never(checked) == FALSE

\* line 161: the login POST is skipped when auth_check(session_res) is true
SkipLogin(checked) == checked

(* ----------------------------- media info ------------------------------ *)

\* validate.url(): a string with a network location
IsUrl(u) == u.k = "str" /\ u.v.netloc # ""

\* lines 93-100 and 101-107: the two shapes of the delivery
SuccessShape(d) ==
  /\ d.code.k = "int" /\ d.code.n = 200
  /\ d.format.k = "str" /\ d.format.s = "hls"
  /\ IsUrl(d.url)

FailureShape_ErrorOptional(d) == d.code.k = "int"

FailureShape(d) == d.code.k = "int" /\ d.error.k = "str"

\* lines 89-111: validate.any tries the shapes in order; the result is the
\* pair (code, url) or (code, error)
DeliverySchema(body) ==
  IF ~body.json \/ ~body.present THEN [ok |-> FALSE, code |-> 0, data |-> Text("")]
  ELSE IF SuccessShape(body) THEN [ok |-> TRUE, code |-> body.code.n, data |-> body.url.v]
  ELSE IF FailureShape(body) THEN [ok |-> TRUE, code |-> body.code.n, data |-> body.error.v]
  ELSE [ok |-> FALSE, code |-> 0, data |-> Text("")]

\* lines 78-88: the media-info request
ApiRequest(f, channel_id) ==
  [method |-> "GET", url |-> [base |-> URL_API, channel_id |-> channel_id],
   params |-> [context |-> "MYTF1", pver |-> "5015000"],
   headers |-> [UserAgent |-> "IPHONE", authorization |-> <<"Bearer ", f.user_token>>]]

\* line 193: the delivery is handed to the playlist parser unless code != 200
IsDelivered(code) == code = 200

(* ------------------------- the resolution call ------------------------- *)

MissingMsg == Text("In order to access your content, TF1 requires an account you must login with, using --tf1-username and --tf1-password")
AuthMsg == Text("Could not authenticate, check your username and password.")
SkipMsg == Text("Already authenticated, skipping authentication")
FoundMsg == Text("Found channel")

Pending == [kind |-> "pending", err |-> ""]

\* the per-call part of an instance: fields, the events of the call, the log,
\* the values handed to the playlist parser, the outcome and the position
Fresh(f) ==
  [f |-> f, tr |-> <<>>, lg |-> <<>>, h |-> <<>>, out |-> Pending, pc |-> "idle", br |-> "none",
   w |-> <<>>]

Raise_Swallowed(c, e) == [c EXCEPT !.out = [kind |-> "raised", err |-> e]]

\* an exception leaves _get_streams: the call is over
Raise(c, e) == [c EXCEPT !.out = [kind |-> "raised", err |-> e], !.pc = "done"]
LogLine(c, level, msg) == [c EXCEPT !.lg = Append(@, [level |-> level, msg |-> msg])]
ReturnNone(c) == [c EXCEPT !.out = [kind |-> "none", err |-> ""], !.pc = "done"]
Issue(c, step, req) ==
  [c EXCEPT !.tr = Append(@, [ev |-> "req", step |-> step, msg |-> req]), !.pc = step]
Recv(c, step, r) == [c EXCEPT !.tr = Append(@, [ev |-> "resp", step |-> step, msg |-> r])]

\* lines 156-159
SessionRequest(page) ==
  [method |-> "GET", url |-> BaseValue("session_url"), params |-> [ptrt |-> page.href]]

LoginRequest_PasswordInQuery(page, session_res, o) ==
  [method |-> "POST", url |-> BaseValue("auth_url"), params |-> o.password,
   data |-> [loginID |-> o.username, password |-> o.password, APIKey |-> gigya_api_key],
   headers |-> [Referer |-> page.href]]

\* lines 165-173
LoginRequest(page, session_res, o) ==
  [method |-> "POST", url |-> BaseValue("auth_url"), params |-> session_res.query,
   data |-> [loginID |-> o.username, password |-> o.password, APIKey |-> gigya_api_key],
   headers |-> [Referer |-> page.href]]

\* the response bound to session_res: the second event of the call
SessionRes(c) == c.tr[2].msg

api_call_DisplayName(x, c) ==
  LET ch == get_channel(x.page) IN
  IF ~ch.ok THEN Raise(c, "PluginError: Invalid channel")
  ELSE Issue(LogLine(c, "debug", FoundMsg), "api", ApiRequest(c.f, ch.channel))

\* lines 189-192: channel derivation, then the media-info request
api_call(x, c) ==
  LET ch == get_channel(x.page) IN
  IF ~ch.ok THEN Raise(c, "PluginError: Invalid channel")
  ELSE Issue(LogLine(c, "debug", FoundMsg), "api", ApiRequest(c.f, ch.channel_id))

\* lines 184-189: what _get_streams does with the value of login()
login_returned(x, c, result) ==
  IF ~result THEN ReturnNone(LogLine(c, "error", AuthMsg))
  ELSE api_call(x, c)

\* lines 165-173: the login POST
login_post(x, c) ==
  IF ~HasAttr(x.base, "auth_url") THEN Raise(c, "AttributeError")
  ELSE Issue(c, "login", LoginRequest(x.page, SessionRes(c), x.o))

auth_checked_Retry(x, c, br, result) ==
  IF br = "session"
    THEN IF SkipLogin(result) THEN login_returned(x, LogLine(c, "debug", SkipMsg), TRUE)
         ELSE login_post(x, c)
    ELSE IF ~result THEN login_post(x, c) ELSE login_returned(x, c, result)

\* lines 161-175: what login() does with the value of auth_check, for the
\* session response (br = "session") and for the login response
auth_checked(x, c, br, result) ==
  IF br = "session"
    THEN IF SkipLogin(result) THEN login_returned(x, LogLine(c, "debug", SkipMsg), TRUE)
         ELSE login_post(x, c)
    ELSE login_returned(x, c, result)

auth_check_ResetOnFail(x, c, br, res) ==
  IF StatusOk(res.status)
    THEN LET p == AssertionParse(c.f, res.body) IN
         IF p.err # "" THEN Raise([c EXCEPT !.f = p.f, !.w = @ \o p.w], p.err)
         ELSE Issue([c EXCEPT !.f = p.f, !.w = @ \o p.w, !.br = br], "token",
                    TokenRequest(p.f, x.page))
    ELSE auth_checked(x, [c EXCEPT !.f = InitFields], br, FALSE)

\* lines 124-139 and 152-153: auth_check up to the token-exchange request
auth_check(x, c, br, res) ==
  IF StatusOk(res.status)
    THEN LET p == AssertionParse(c.f, res.body) IN
         IF p.err # "" THEN Raise([c EXCEPT !.f = p.f, !.w = @ \o p.w], p.err)
         ELSE Issue([c EXCEPT !.f = p.f, !.w = @ \o p.w, !.br = br], "token",
                    TokenRequest(p.f, x.page))
    ELSE auth_checked(x, c, br, FALSE)

\* lines 140-151: auth_check from the token-exchange response on
token_received(x, c, body) ==
  IF ~TokenSchema(body) THEN Raise(c, "PluginError: validate")
  ELSE auth_checked(x, [c EXCEPT !.f = StoreToken(c.f, body), !.w = Append(@, "user_token")],
                    c.br, TRUE)

\* lines 192-197
api_received(x, c, body) ==
  LET d == DeliverySchema(body) IN
  IF ~d.ok THEN Raise(c, "PluginError: validate")
  ELSE IF ~IsDelivered(d.code) THEN ReturnNone(LogLine(c, "error", d.data))
  ELSE [c EXCEPT !.h = Append(@, d.data), !.out = [kind |-> "streams", err |-> ""], !.pc = "done"]

\* lines 155-159
login(x, c) ==
  IF ~HasAttr(x.base, "session_url") THEN Raise(c, "AttributeError")
  ELSE Issue(c, "session", SessionRequest(x.page))

\* lines 177-184
get_streams(x, f) ==
  IF ~Truthy(x.o.username) THEN ReturnNone(LogLine(Fresh(f), "error", MissingMsg))
  ELSE login(x, Fresh(f))

(* ------------------------------- actions ------------------------------- *)

Ctx(i) == [base |-> baseAttrs, page |-> url[i], o |-> opts[i]]

Cfg(i) == [f |-> fields[i], tr |-> trace[i], lg |-> logs[i], h |-> hls[i],
           out |-> outcome[i], pc |-> pc[i], br |-> branch[i], w |-> writes[i]]

Apply_Shared(i, c) ==
  /\ fields' = [j \in Insts |-> c.f]
  /\ trace' = [trace EXCEPT ![i] = c.tr]
  /\ logs' = [logs EXCEPT ![i] = c.lg]
  /\ hls' = [hls EXCEPT ![i] = c.h]
  /\ outcome' = [outcome EXCEPT ![i] = c.out]
  /\ pc' = [pc EXCEPT ![i] = c.pc]
  /\ branch' = [branch EXCEPT ![i] = c.br]
  /\ writes' = [writes EXCEPT ![i] = c.w]

\* self.<field> = ... binds the field in the instance, not in the class
Apply(i, c) ==
  /\ fields' = [fields EXCEPT ![i] = c.f]
  /\ trace' = [trace EXCEPT ![i] = c.tr]
  /\ logs' = [logs EXCEPT ![i] = c.lg]
  /\ hls' = [hls EXCEPT ![i] = c.h]
  /\ outcome' = [outcome EXCEPT ![i] = c.out]
  /\ pc' = [pc EXCEPT ![i] = c.pc]
  /\ branch' = [branch EXCEPT ![i] = c.br]
  /\ writes' = [writes EXCEPT ![i] = c.w]

\* every instance as constructed: no call made yet
Constructed ==
  /\ opts = [i \in Insts |-> [username |-> None, password |-> None]]
  /\ fields = [i \in Insts |-> InitFields]
  /\ entry = [i \in Insts |-> InitFields]
  /\ pc = [i \in Insts |-> "idle"]
  /\ branch = [i \in Insts |-> "none"]
  /\ trace = [i \in Insts |-> <<>>]
  /\ logs = [i \in Insts |-> <<>>]
  /\ hls = [i \in Insts |-> <<>>]
  /\ outcome = [i \in Insts |-> Pending]
  /\ calls = [i \in Insts |-> 0]
  /\ writes = [i \in Insts |-> <<>>]

\* no address under examination
NoAddress ==
  /\ address = <<>>
  /\ matched = NoMatch
  /\ channel = get_channel(NoMatch)
  /\ phase = "off"

Init ==
  /\ baseAttrs \in BaseAttrSets
  /\ url \in { u \in [Insts -> Urls] : \A i \in Insts \ Active : u[i] = u["p1"] }
  /\ Constructed
  /\ NoAddress

\* a caller starts _get_streams on an instance that is not inside a call;
\* entry keeps the auth fields as the call found them
GetStreamsWith(i, O) ==
  /\ pc[i] \in {"idle", "done"}
  /\ calls[i] < MaxCalls
  /\ \E o \in O :
       /\ opts' = [opts EXCEPT ![i] = o]
       /\ Apply(i, get_streams([Ctx(i) EXCEPT !.o = o], fields[i]))
  /\ calls' = [calls EXCEPT ![i] = @ + 1]
  /\ entry' = [entry EXCEPT ![i] = fields[i]]
  /\ UNCHANGED <<baseAttrs, url, chanVars>>

SessionResponseWith(i, R) ==
  /\ pc[i] = "session"
  /\ \E r \in R : Apply(i, auth_check(Ctx(i), Recv(Cfg(i), "session", r), "session", r))
  /\ UNCHANGED <<baseAttrs, url, opts, entry, calls, chanVars>>

LoginResponseWith(i, R) ==
  /\ pc[i] = "login"
  /\ \E r \in R : Apply(i, auth_check(Ctx(i), Recv(Cfg(i), "login", r), "login", r))
  /\ UNCHANGED <<baseAttrs, url, opts, entry, calls, chanVars>>

TokenResponseWith(i, B) ==
  /\ pc[i] = "token"
  /\ \E b \in B : Apply(i, token_received(Ctx(i), Recv(Cfg(i), "token", b), b))
  /\ UNCHANGED <<baseAttrs, url, opts, entry, calls, chanVars>>

ApiResponseWith(i, B) ==
  /\ pc[i] = "api"
  /\ \E b \in B : Apply(i, api_received(Ctx(i), Recv(Cfg(i), "api", b), b))
  /\ UNCHANGED <<baseAttrs, url, opts, entry, calls, chanVars>>

GetStreams(i) == GetStreamsWith(i, Options)

SessionResponse(i) == SessionResponseWith(i, AuthResponses)

LoginResponse(i) == LoginResponseWith(i, AuthResponses)

TokenResponse(i) == TokenResponseWith(i, TokenBodies)

ApiResponse(i) == ApiResponseWith(i, Deliveries)

\* the HTTP client raises instead of returning a response
TransportError(i) ==
  /\ pc[i] \in {"session", "login", "token", "api"}
  /\ Apply(i, Raise([Cfg(i) EXCEPT !.tr = Append(@, [ev |-> "fail", step |-> pc[i], msg |-> [error |-> "Unable to open URL"]])],
                    "PluginError: Unable to open URL"))
  /\ UNCHANGED <<baseAttrs, url, opts, entry, calls, chanVars>>

Step(i) ==
  \/ GetStreams(i)
  \/ SessionResponse(i)
  \/ LoginResponse(i)
  \/ TokenResponse(i)
  \/ ApiResponse(i)
  \/ TransportError(i)

Next == \E i \in Active : Step(i)

Spec == Init /\ [][Next]_vars

(* ---------------- the matcher and the channel derivation --------------- *)

InitChan ==
  /\ baseAttrs = {}
  /\ url \in { u \in [Insts -> Urls] : \A i \in Insts : u[i].href = "https://www.tf1.fr/tf1/direct" }
  /\ Constructed
  /\ address \in Addresses
  /\ matched = NoMatch
  /\ channel = get_channel(NoMatch)
  /\ phase = "input"

\* lines 23-34: the address is matched, or turned away as unsupported
MatchAddress ==
  /\ phase = "input"
  /\ matched' = MatchUrl(address)
  /\ phase' = IF MatchUrl(address).ok THEN "matched" ELSE "rejected"
  /\ UNCHANGED <<address, channel, callVars>>

\* lines 62-75: _get_channel on the groups of the match
ResolveChannel ==
  /\ phase = "matched"
  /\ channel' = get_channel(matched)
  /\ phase' = IF get_channel(matched).ok THEN "resolved" ELSE "invalid"
  /\ UNCHANGED <<address, matched, callVars>>

NextChan == MatchAddress \/ ResolveChannel

SpecChan == InitChan /\ [][NextChan]_vars

(* ------------------- two instances, calls interleaved ------------------ *)

\* the inputs of the interleaved calls
ParOptions == { [username |-> "alice", password |-> "hunter2"],
                [username |-> None, password |-> None] }

ParAuthResponses ==
  { [status |-> 200, body |-> GoodBodyA, query |-> "ptrt=x"],
    [status |-> 200, body |-> GoodBodyB, query |-> "ptrt=x"],
    [status |-> 204, body |-> GoodBodyA, query |-> "ptrt=x"] }

ParTokenBodies == { GoodToken1, GoodToken2, [GoodToken1 EXCEPT !.ttl = JA] }

ParDeliveries ==
  { [json |-> TRUE, present |-> TRUE, code |-> JI(200), format |-> JS("hls"),
     url |-> US(Manifest), error |-> UA],
    [json |-> TRUE, present |-> TRUE, code |-> JI(403), format |-> JS("hls"),
     url |-> UA, error |-> US(Text("geo-blocked"))] }

InitPar ==
  /\ baseAttrs \in BaseAttrSets
  /\ url \in [Insts -> Urls]
  /\ Constructed
  /\ NoAddress

\* each instance makes one call; the steps of the two calls interleave
ParGetStreams(i) == pc[i] = "idle" /\ GetStreamsWith(i, ParOptions)

ParSessionResponse(i) == SessionResponseWith(i, ParAuthResponses)

ParLoginResponse(i) == LoginResponseWith(i, ParAuthResponses)

ParTokenResponse(i) == TokenResponseWith(i, ParTokenBodies)

ParApiResponse(i) == ApiResponseWith(i, ParDeliveries)

ParStep(i) ==
  \/ ParGetStreams(i)
  \/ ParSessionResponse(i)
  \/ ParLoginResponse(i)
  \/ ParTokenResponse(i)
  \/ ParApiResponse(i)
  \/ TransportError(i)

NextPar == \E i \in Insts : ParStep(i)

SpecPar == InitPar /\ [][NextPar]_vars

(* ------------------- every request gets its answer --------------------- *)

\* the HTTP client comes back from a request, with a response or an error
Respond(i) ==
  \/ SessionResponse(i)
  \/ LoginResponse(i)
  \/ TokenResponse(i)
  \/ ApiResponse(i)
  \/ TransportError(i)

SpecLive == Init /\ [][Next]_vars /\ \A i \in Active : WF_vars(Respond(i))

TypeOK ==
  /\ \A i \in Insts : pc[i] \in {"idle", "session", "login", "token", "api", "done"}
  /\ \A i \in Insts : calls[i] \in 0..MaxCalls

(* ------------------------- reading the events -------------------------- *)

IsReq(e, step) == e.ev = "req" /\ e.step = step
IsResp(e, step) == e.ev = "resp" /\ e.step = step

ReqCount(i, step) == Cardinality({k \in 1..Len(trace[i]) : IsReq(trace[i][k], step)})

Started(i) == calls[i] > 0
Ended(i) == Started(i) /\ pc[i] = "done"

LastLog(i) == logs[i][Len(logs[i])]

\* the call ended without streams after logging msg as an error
FailedWith(i, msg) ==
  /\ pc[i] = "done"
  /\ outcome[i].kind = "none"
  /\ logs[i] # <<>>
  /\ LastLog(i) = [level |-> "error", msg |-> msg]
  /\ hls[i] = <<>>

(* ------------------------------- claims -------------------------------- *)

\* C1 (as claimed): a call started with the username or the password unset
\* ends with the missing-credentials diagnostic and issues no HTTP request.
C1_MissingEitherFailsSilently ==
  \A i \in Insts :
    (Started(i) /\ (~Truthy(opts[i].username) \/ ~Truthy(opts[i].password)))
      => (trace[i] = <<>> /\ FailedWith(i, MissingMsg))

\* C2: a media-info GET is issued only after a token exchange of the same call
\* returned a response with all four fields, and its authorization header is
\* "Bearer " followed by the token of that response, also on a reused instance.
C2_BearerIsExchangedToken ==
  \A i \in Insts : \A k \in 1..Len(trace[i]) :
    IsReq(trace[i][k], "api") =>
      \E j \in 1..(k - 1) :
        /\ IsResp(trace[i][j], "token")
        /\ \A m \in (j + 1)..(k - 1) : ~IsResp(trace[i][m], "token")
        /\ trace[i][j].msg.json
        /\ trace[i][j].msg.token.k = "str"
        /\ trace[i][j].msg.refresh_token.k = "str"
        /\ trace[i][j].msg.ttl.k = "int"
        /\ trace[i][j].msg.type.k = "str"
        /\ trace[i][k].msg.headers.authorization = <<"Bearer ", trace[i][j].msg.token.s>>

\* a second call on the same instance sends the token it was given, not the
\* one the first call left in the instance
C2_Witness ==
  \E i \in Insts : \E k \in 1..Len(trace[i]) :
    /\ calls[i] = 2
    /\ entry[i].user_token = "tok1"
    /\ IsReq(trace[i][k], "api")
    /\ trace[i][k].msg.headers.authorization = <<"Bearer ", "tok2">>

\* C3: a login POST answered with a status other than 200 ends the call with
\* the "check your username and password" diagnostic; nothing is requested
\* after that response and no streams are produced.
C3_LoginRejectedStops ==
  \A i \in Insts : \A k \in 1..Len(trace[i]) :
    (IsResp(trace[i][k], "login") /\ trace[i][k].msg.status # 200)
      => /\ k = Len(trace[i])
         /\ FailedWith(i, AuthMsg)
         /\ ReqCount(i, "token") = 0
         /\ ReqCount(i, "api") = 0

C3_Witness ==
  \E i \in Insts :
    /\ trace[i] # <<>>
    /\ IsResp(trace[i][Len(trace[i])], "login")
    /\ trace[i][Len(trace[i])].msg.status = 204
    /\ pc[i] = "done"

\* the bodies the session endpoint answers with when the caller is logged in,
\* and the assertion each of them states
Parseable(body) ==
  /\ body.json
  /\ body.userSignature.k = "str"
  /\ body.UID.k = "str"
  /\ body.timestamp \in {TI(41), TS(<<"4", "2">>)}

StatedStamp(body) == IF body.timestamp = TI(41) THEN 41 ELSE 42

Carries(req, body) ==
  /\ req.data.uid = body.UID.s
  /\ req.data.signature = body.userSignature.s
  /\ req.data.timestamp = [isint |-> TRUE, n |-> StatedStamp(body)]

AllFour(b) ==
  /\ b.json
  /\ b.token.k = "str"
  /\ b.refresh_token.k = "str"
  /\ b.ttl.k = "int"
  /\ b.type.k = "str"

\* C4: when the session GET is answered 200 with a parseable assertion, the
\* call makes no login POST: the next request is the token-exchange POST with
\* that assertion, and once that exchange succeeds the call goes on, as
\* authenticated, to the media-info GET.
C4_AlreadyAuthenticatedSkipsLogin ==
  \A i \in Insts :
    (Len(trace[i]) >= 2 /\ IsResp(trace[i][2], "session")
       /\ trace[i][2].msg.status = 200 /\ Parseable(trace[i][2].msg.body))
      => /\ ReqCount(i, "login") = 0
         /\ Len(trace[i]) >= 3
         /\ IsReq(trace[i][3], "token")
         /\ Carries(trace[i][3].msg, trace[i][2].msg.body)
         /\ (Len(trace[i]) >= 4 /\ IsResp(trace[i][4], "token") /\ AllFour(trace[i][4].msg))
              => /\ Len(trace[i]) >= 5
                 /\ IsReq(trace[i][5], "api")
                 /\ [level |-> "debug", msg |-> SkipMsg] \in {logs[i][k] : k \in 1..Len(logs[i])}

C4_Witness ==
  \E i \in Insts :
    /\ Len(trace[i]) >= 5
    /\ IsResp(trace[i][2], "session")
    /\ trace[i][2].msg.body = GoodBodyB
    /\ IsReq(trace[i][3], "token")
    /\ IsReq(trace[i][5], "api")

\* a delivery of the failure shape {code: <int>, error: <string>} with no url
FailureDelivery(d) ==
  /\ d.json /\ d.present
  /\ d.code.k = "int"
  /\ d.error.k = "str"
  /\ d.url.k = "absent"

\* a delivery of the success shape {code: 200, format: "hls", url: <valid URL>}
SuccessDelivery(d) ==
  /\ d.json /\ d.present
  /\ d.code = JI(200)
  /\ d.format = JS("hls")
  /\ d.url.k = "str" /\ d.url.v.netloc # ""

\* C5 (as claimed): for every delivery of the failure shape without a url the
\* call reports the provider's error text, produces no streams and does not
\* invoke the playlist parser.
C5_FailureDeliveryReported ==
  \A i \in Insts :
    (trace[i] # <<>> /\ IsResp(trace[i][Len(trace[i])], "api")
       /\ FailureDelivery(trace[i][Len(trace[i])].msg))
      => FailedWith(i, trace[i][Len(trace[i])].msg.error.v)

\* C6 (as claimed): the playlist parser is invoked at most once per call, only
\* for a delivery of the success shape, and with that delivery's url.
C6_ParserGetsDeliveryUrl ==
  \A i \in Insts :
    /\ Len(hls[i]) <= 1
    /\ hls[i] # <<>> =>
         /\ IsResp(trace[i][Len(trace[i])], "api")
         /\ SuccessDelivery(trace[i][Len(trace[i])].msg)
         /\ hls[i][1] = trace[i][Len(trace[i])].msg.url.v

\* C7: a token-exchange response lacking one of token, refresh_token, ttl (an
\* integer) and type ends the call with a raised validation error, which is
\* not the bad-credentials failure; the bearer token is not written and no
\* media-info GET is issued.
C7_TokenSchemaHardError ==
  \A i \in Insts : \A k \in 1..Len(trace[i]) :
    (IsResp(trace[i][k], "token") /\ ~AllFour(trace[i][k].msg))
      => /\ k = Len(trace[i])
         /\ pc[i] = "done"
         /\ outcome[i] = [kind |-> "raised", err |-> "PluginError: validate"]
         /\ ~FailedWith(i, AuthMsg)
         /\ [level |-> "error", msg |-> AuthMsg] \notin {logs[i][m] : m \in 1..Len(logs[i])}
         /\ fields[i].user_token = entry[i].user_token
         /\ ReqCount(i, "api") = 0

C7_Witness ==
  \E i \in Insts :
    /\ trace[i] # <<>>
    /\ IsResp(trace[i][Len(trace[i])], "token")
    /\ trace[i][Len(trace[i])].msg = [GoodToken1 EXCEPT !.ttl = JA]
    /\ outcome[i].kind = "raised"

Rank(step) ==
  CASE step = "session" -> 1 [] step = "login" -> 2 [] step = "token" -> 3 [] step = "api" -> 4

\* C8: within a call the requests go out one at a time, each only after the
\* previous one was answered, in the order session GET, login POST (optional),
\* token-exchange POST, media-info GET, and never an earlier step after a
\* later one.
C8_RequestsInOrder ==
  \A i \in Insts :
    /\ \A k \in 1..Len(trace[i]) :
         IF k % 2 = 1
           THEN /\ trace[i][k].ev = "req"
                /\ k = 1 => trace[i][k].step = "session"
                /\ k > 1 => Rank(trace[i][k].step) > Rank(trace[i][k - 2].step)
           ELSE /\ trace[i][k].ev \in {"resp", "fail"}
                /\ trace[i][k].step = trace[i][k - 1].step
    /\ pc[i] \in {"session", "login", "token", "api"} <=> Len(trace[i]) % 2 = 1

C8_Witness ==
  \E i \in Insts :
    /\ Len(trace[i]) >= 7
    /\ IsReq(trace[i][1], "session")
    /\ IsReq(trace[i][3], "login")
    /\ IsReq(trace[i][5], "token")
    /\ IsReq(trace[i][7], "api")

\* C9: a call issues at most one session GET, one login POST and one
\* token-exchange POST, and every assertion taken from a 200 response is sent
\* in exactly one token-exchange POST, the request that follows the response.
C9_SingleAttempt ==
  \A i \in Insts :
    /\ ReqCount(i, "session") <= 1
    /\ ReqCount(i, "login") <= 1
    /\ ReqCount(i, "token") <= 1
    /\ \A k \in 1..Len(trace[i]) :
         ((IsResp(trace[i][k], "session") \/ IsResp(trace[i][k], "login"))
            /\ trace[i][k].msg.status = 200 /\ Parseable(trace[i][k].msg.body))
           => /\ Cardinality({m \in 1..Len(trace[i]) :
                     IsReq(trace[i][m], "token") /\ Carries(trace[i][m].msg, trace[i][k].msg.body)}) = 1
              /\ Len(trace[i]) > k
              /\ IsReq(trace[i][k + 1], "token")
              /\ Carries(trace[i][k + 1].msg, trace[i][k].msg.body)

\* an assertion from the login response, on an instance whose fields still
\* hold the other assertion from the call before
C9_Witness ==
  \E i \in Insts :
    /\ Len(trace[i]) >= 5
    /\ entry[i].user_uid = "uidB"
    /\ IsResp(trace[i][4], "login")
    /\ trace[i][4].msg.status = 200
    /\ trace[i][4].msg.body = GoodBodyA
    /\ IsReq(trace[i][5], "token")

\* C10 (as claimed): with username and password set, every call starts with a
\* GET to the session endpoint carrying ptrt = the page URL, and a login POST,
\* when made, goes to the identity provider's login endpoint.
C10_SessionGetAlwaysIssued ==
  \A i \in Insts :
    (Started(i) /\ Truthy(opts[i].username) /\ Truthy(opts[i].password))
      => /\ trace[i] # <<>>
         /\ IsReq(trace[i][1], "session")
         /\ trace[i][1].msg.method = "GET"
         /\ trace[i][1].msg.params.ptrt = url[i].href
         /\ \A k \in 1..Len(trace[i]) :
              IsReq(trace[i][k], "login") => trace[i][k].msg.url = TF1_AUTH_URL

\* the upper-case form of the live slugs among the addresses
UpperOfSlug(w) ==
  CASE w = <<"t", "f", "1">> -> <<"T", "F", "1">>
    [] w = <<"T", "M", "C">> -> <<"T", "M", "C">>
    [] w = <<"t", "_", "f", "-", "1">> -> <<"T", "_", "F", "-", "1">>
    [] w = <<"s", "t", "r", "e", "a", "m">> -> <<"S", "T", "R", "E", "A", "M">>
    [] OTHER -> <<"?">>

\* C11: _get_channel gives (s, "L_" + uppercase(s)) for a live slug s,
\* ("LCI", "L_LCI") for either LCI host, and (s, "L_FAST_v2l-" + s) with the
\* case of s kept for a stream slug s.
C11_ChannelPairs ==
  phase = "resolved" =>
    /\ (matched.live.matched /\ matched.live.s # <<>>) =>
         /\ channel.channel = matched.live.s
         /\ channel.channel_id = <<"L", "_">> \o UpperOfSlug(matched.live.s)
    /\ (~matched.live.matched /\ matched.lci.matched) =>
         /\ matched.lci.s \in {<<"l", "c", "i">>, <<"t", "f", "1", "i", "n", "f", "o">>}
         /\ channel.channel = <<"L", "C", "I">>
         /\ channel.channel_id = <<"L", "_", "L", "C", "I">>
    /\ (~matched.live.matched /\ ~matched.lci.matched) =>
         /\ matched.stream.matched
         /\ channel.channel = matched.stream.s
         /\ channel.channel_id = <<"L", "_", "F", "A", "S", "T", "_", "v", "2", "l", "-">> \o matched.stream.s

C11_Witness ==
  /\ phase = "resolved"
  /\ matched.stream.s = <<"s", "P", "-", "1">>
  /\ channel.channel_id = <<"L", "_", "F", "A", "S", "T", "_", "v", "2", "l", "-", "s", "P", "-", "1">>

PopulatedGroups ==
  {g \in {"live", "stream", "lci"} : matched[g].matched /\ matched[g].s # <<>>}

\* C19: for every address the matcher accepts exactly one of the groups live,
\* stream and lci is populated and non-empty, and _get_channel never reaches
\* its "Invalid channel" branch.
C19_ExactlyOneGroup ==
  /\ phase \in {"matched", "resolved", "invalid"} => Cardinality(PopulatedGroups) = 1
  /\ phase # "invalid"

\* an address that both alternatives of tf1.fr could claim: the live one wins
C19_Witness ==
  /\ phase = "resolved"
  /\ address = <<"h", "t", "t", "p", "s", ":", "/", "/", "w", "w", "w", ".", "t", "f", "1", ".", "f", "r", "/", "s", "t", "r", "e", "a", "m", "/", "d", "i", "r", "e", "c", "t">>
  /\ PopulatedGroups = {"live"}

\* the channel id of each page
IdOfPage(href) ==
  CASE href = "https://www.tf1.fr/tf1/direct" -> <<"L", "_", "T", "F", "1">>
    [] href = "https://www.tf1.fr/stream/sP-1" -> <<"L", "_", "F", "A", "S", "T", "_", "v", "2", "l", "-", "s", "P", "-", "1">>
    [] href = "https://lci.fr/direct" -> <<"L", "_", "L", "C", "I">>

\* C12: in every run, first or repeated on the same instance, with both
\* credentials set and a 200 session response holding a parseable assertion,
\* no login POST is issued and the channel id requested is the one of the
\* page, whatever the run before left in the instance.
C12_RerunSameChannel ==
  \A i \in Insts :
    (Len(trace[i]) >= 2 /\ IsResp(trace[i][2], "session")
       /\ trace[i][2].msg.status = 200 /\ Parseable(trace[i][2].msg.body)
       /\ Truthy(opts[i].username) /\ Truthy(opts[i].password))
      => /\ ReqCount(i, "login") = 0
         /\ \A k \in 1..Len(trace[i]) :
              IsReq(trace[i][k], "api") => trace[i][k].msg.url.channel_id = IdOfPage(url[i].href)
         /\ (Len(trace[i]) >= 4 /\ IsResp(trace[i][4], "token") /\ AllFour(trace[i][4].msg))
              => ReqCount(i, "api") = 1

\* a second run on an instance whose auth fields were set by the first
C12_Witness ==
  \E i \in Insts :
    /\ calls[i] = 2
    /\ entry[i].user_signature = "sigA"
    /\ entry[i].user_token = "tok1"
    /\ Len(trace[i]) >= 5
    /\ IsResp(trace[i][2], "session")
    /\ trace[i][2].msg.status = 200
    /\ IsReq(trace[i][5], "api")
    /\ ReqCount(i, "login") = 0

\* each token-exchange POST carries the assertion of the response its own call
\* just received, each media-info GET the token of its own call's exchange
OwnValuesSent ==
  \A i \in Insts : \A k \in 1..Len(trace[i]) :
    /\ IsReq(trace[i][k], "token") =>
         /\ k > 1
         /\ IsResp(trace[i][k - 1], "session") \/ IsResp(trace[i][k - 1], "login")
         /\ Carries(trace[i][k].msg, trace[i][k - 1].msg.body)
    /\ IsReq(trace[i][k], "api") =>
         /\ k > 1
         /\ IsResp(trace[i][k - 1], "token")
         /\ trace[i][k].msg.headers.authorization = <<"Bearer ", trace[i][k - 1].msg.token.s>>

\* a step of one call leaves the auth fields of the other instance alone
OthersFieldsKept ==
  \A i \in Insts : (trace'[i] = trace[i] /\ pc'[i] = pc[i]) => fields'[i] = fields[i]

\* C13: with two calls interleaved, each on its own instance, the auth fields
\* written by one call are never overwritten or read by the other: every
\* token-exchange POST carries its own call's assertion and every media-info
\* GET its own call's bearer token.
C13_InstancesIndependent == []OwnValuesSent /\ [][OthersFieldsKept]_vars

\* both calls in flight, each holding its own assertion
C13_Witness ==
  /\ pc["p1"] = "api"
  /\ pc["p2"] = "token"
  /\ fields["p1"].user_signature = "sigA"
  /\ fields["p1"].user_token = "tok1"
  /\ fields["p2"].user_signature = "sigB"
  /\ fields["p2"].user_token = ""

\* the places of a request, other than the body of the login POST, that hold
\* text, and the texts of the log and of the raised error
TextsOutsideLoginBody(i) ==
  UNION { IF IsReq(trace[i][k], "session")
            THEN {trace[i][k].msg.method, trace[i][k].msg.params.ptrt}
          ELSE IF IsReq(trace[i][k], "login")
            THEN {trace[i][k].msg.method, trace[i][k].msg.params, trace[i][k].msg.headers.Referer}
          ELSE IF IsReq(trace[i][k], "token")
            THEN {trace[i][k].msg.method, trace[i][k].msg.url, trace[i][k].msg.data.uid,
                  trace[i][k].msg.data.signature, trace[i][k].msg.headers.Referer}
          ELSE IF IsReq(trace[i][k], "api")
            THEN {trace[i][k].msg.method, trace[i][k].msg.url.base,
                  trace[i][k].msg.params.context, trace[i][k].msg.params.pver,
                  trace[i][k].msg.headers.UserAgent, trace[i][k].msg.headers.authorization[1],
                  trace[i][k].msg.headers.authorization[2]}
          ELSE {} : k \in 1..Len(trace[i]) }
  \cup { logs[i][k].msg.path : k \in 1..Len(logs[i]) }
  \cup { outcome[i].err }

\* C14: the password is sent in the body of the login POST and nowhere else:
\* not in the session GET, the query or headers of the login POST, the
\* token-exchange POST, the media-info GET, a log line or an error text.
C14_PasswordOnlyInLoginBody ==
  \A i \in Insts :
    Truthy(opts[i].password) =>
      /\ opts[i].password \notin TextsOutsideLoginBody(i)
      /\ \A k \in 1..Len(trace[i]) :
           IsReq(trace[i][k], "login") =>
             /\ trace[i][k].msg.data.password = opts[i].password
             /\ trace[i][k].msg.data.loginID # opts[i].password
             /\ trace[i][k].msg.data.APIKey # opts[i].password

\* the password was posted and the call then failed with the diagnostic
C14_Witness ==
  \E i \in Insts :
    /\ opts[i].password = "hunter2"
    /\ Len(trace[i]) >= 4
    /\ IsReq(trace[i][3], "login")
    /\ trace[i][3].msg.data.password = "hunter2"
    /\ FailedWith(i, AuthMsg)

\* C15 (as claimed): when the session response is not a 200 with a parseable
\* assertion (another status, or a 200 whose body lacks a parseable
\* userSignature, UID or timestamp) the call goes on to the login POST.
C15_OtherwiseLogsIn ==
  \A i \in Insts :
    (Len(trace[i]) >= 2 /\ IsResp(trace[i][2], "session")
       /\ ~(trace[i][2].msg.status = 200 /\ Parseable(trace[i][2].msg.body)))
      => /\ Len(trace[i]) >= 3
         /\ IsReq(trace[i][3], "login")

\* a delivery of neither shape
NeitherShape(d) ==
  /\ ~SuccessDelivery(d)
  /\ ~(d.json /\ d.present /\ d.code.k = "int" /\ d.error.k = "str")

\* C16: a media-info delivery of neither the success nor the failure shape
\* ends the call with a raised validation error, not with a logged delivery
\* failure; no streams are produced and the playlist parser is not invoked.
C16_UnknownDeliveryRaises ==
  \A i \in Insts :
    (trace[i] # <<>> /\ IsResp(trace[i][Len(trace[i])], "api")
       /\ NeitherShape(trace[i][Len(trace[i])].msg))
      => /\ pc[i] = "done"
         /\ outcome[i] = [kind |-> "raised", err |-> "PluginError: validate"]
         /\ \A k \in 1..Len(logs[i]) : logs[i][k].level # "error"
         /\ hls[i] = <<>>

\* a delivery with a code and nothing else
C16_Witness ==
  \E i \in Insts :
    /\ trace[i] # <<>>
    /\ IsResp(trace[i][Len(trace[i])], "api")
    /\ trace[i][Len(trace[i])].msg.code = JI(403)
    /\ trace[i][Len(trace[i])].msg.url = UA
    /\ trace[i][Len(trace[i])].msg.error = UA
    /\ outcome[i].kind = "raised"

\* the step consumed a session or login response with a status other than 200
NonOkConsumed(i) ==
  /\ Len(trace'[i]) > Len(trace[i])
  /\ trace[i] # <<>>
  /\ LET r == trace'[i][Len(trace[i]) + 1] IN
       /\ IsResp(r, "session") \/ IsResp(r, "login")
       /\ r.msg.status # 200

\* C17: a session or login response with a status other than 200 leaves the
\* four auth fields as they were before it was processed, writes none of
\* them, and no token-exchange POST is issued for it.
C17_NonOkLeavesFields ==
  [][\A i \in Insts :
       NonOkConsumed(i) =>
         /\ fields'[i] = fields[i]
         /\ writes'[i] = writes[i]
         /\ \A k \in (Len(trace[i]) + 1)..Len(trace'[i]) : ~IsReq(trace'[i][k], "token")]_vars

\* a rejected login on an instance that still holds the assertion and the
\* token of the call before
C17_Witness ==
  \E i \in Insts :
    /\ Len(trace[i]) = 4
    /\ IsResp(trace[i][4], "login")
    /\ trace[i][4].msg.status = 403
    /\ fields[i].user_signature = "sigB"
    /\ fields[i].user_token = "tok2"
    /\ fields[i] = entry[i]

\* C18: within one call each of the four auth fields is assigned at most
\* once, and the bearer token only after signature, user id and timestamp
\* were assigned in that call.
C18_WriteOnce ==
  \A i \in Insts :
    /\ \A j, k \in 1..Len(writes[i]) : writes[i][j] = writes[i][k] => j = k
    /\ \A k \in 1..Len(writes[i]) :
         writes[i][k] = "user_token" =>
           {"user_signature", "user_uid", "user_timestamp"} \subseteq {writes[i][j] : j \in 1..(k - 1)}

\* all four assigned, in a call that found them set by the call before
C18_Witness ==
  \E i \in Insts :
    /\ calls[i] = 2
    /\ entry[i].user_token = "tok1"
    /\ writes[i] = <<"user_signature", "user_uid", "user_timestamp", "user_token">>
    /\ fields[i].user_token = "tok2"

Awaiting(i) == pc[i] \in {"session", "login", "token", "api"}

\* a call that is over has one of the three outcomes, a running one has none
OneOutcome ==
  \A i \in Insts :
    /\ pc[i] = "done" =>
         \/ outcome[i].kind = "streams" /\ hls[i] # <<>>
         \/ outcome[i].kind = "none" /\ logs[i] # <<>> /\ LastLog(i).level = "error"
         \/ outcome[i].kind = "raised" /\ outcome[i].err # ""
    /\ pc[i] # "done" => outcome[i].kind = "pending"

\* until the caller starts another call, a call that is over stays as it is
OutcomeKept ==
  \A i \in Insts :
    (pc[i] = "done" /\ calls'[i] = calls[i]) =>
      /\ pc'[i] = "done"
      /\ outcome'[i] = outcome[i]
      /\ trace'[i] = trace[i]

\* C20: if every issued request is answered, every call ends, with exactly
\* one of streams, no streams with a diagnostic, or a raised error; after that
\* it issues no request and its outcome does not change.
C20_CallsEnd ==
  /\ \A i \in Insts : [](Awaiting(i) => <>(pc[i] = "done"))
  /\ []OneOutcome
  /\ [][OutcomeKept]_vars

\* a call that went through all four requests and ended with streams
C20_Witness ==
  \E i \in Insts :
    /\ pc[i] = "done"
    /\ outcome[i].kind = "streams"
    /\ Len(trace[i]) = 8
    /\ ReqCount(i, "login") = 1

====
